---- MODULE Spec2Model ----
(***************************************************************************)
(* Availability checks of the Reservo MCP server (src/server.py).          *)
(*                                                                         *)
(* Two tools are modelled: check_date_availability (single date) and       *)
(* check_date_range_availability (date range).  Each call is one query;    *)
(* the steps of a query are the points where the coroutine can be          *)
(* observed: the call (argument parsing and validation), each monthly      *)
(* fetch it awaits, the conflict filter, every iteration of the            *)
(* free-period scan, and the return.                                       *)
(*                                                                         *)
(* Date strings ('%Y-%m-%d', ISO timestamps) are triples <<y, m, d>>;      *)
(* the time of day of an ISO timestamp is dropped, since the code only     *)
(* ever uses .date() of it.  date objects are proleptic Gregorian          *)
(* ordinals, as in datetime.date.toordinal().  The opaque fields bookedBy  *)
(* and createdAt are copied through by the code and left out here.         *)
(***************************************************************************)
EXTENDS Integers, Sequences, FiniteSets, Bags, TLC

\* Largest number of reservation records the backend returns to one query.
MaxRes == 2

\* A date string that strptime / fromisoformat rejects (ValueError).
BadDate == <<0, 0, 0>>

\* Date strings a caller passes as date, start_date or end_date.
QueryDates == {<<2023, 12, 31>>, <<2024, 3, 1>>, <<2024, 3, 5>>, <<2024, 3, 15>>}

\* Dates the backend's reservations start and end on.
ReservationDates == {<<2024, 3, 1>>, <<2024, 3, 5>>, <<2024, 3, 10>>, <<2024, 3, 15>>}

\* Reservation intervals that end on or before the day they start.
ImproperShapes == {<<<<2024, 3, 5>>, <<2024, 3, 5>>>>, <<<<2024, 3, 10>>, <<2024, 3, 5>>>>}

\* Calendar order of two date strings, read off the strings themselves.
DateLess(a, b) ==
    \/ a[1] < b[1]
    \/ a[1] = b[1] /\ a[2] < b[2]
    \/ a[1] = b[1] /\ a[2] = b[2] /\ a[3] < b[3]

----------------------------------------------------------------------------
(* datetime: calendar arithmetic behind strptime, strftime, date compare   *)
(* and timedelta(days=1).                                                  *)

IsLeap(y) == (y % 4 = 0 /\ y % 100 # 0) \/ (y % 400 = 0)

DaysInMonth(y, m) ==
    IF m = 2 THEN (IF IsLeap(y) THEN 29 ELSE 28)
    ELSE IF m \in {4, 6, 9, 11} THEN 30 ELSE 31

\* Days of a common year before the first of each month.
DaysBeforeMonthCommon == <<0, 31, 59, 90, 120, 151, 181, 212, 243, 273, 304, 334>>

DaysBeforeMonth(y, m) ==
    DaysBeforeMonthCommon[m] + (IF m > 2 /\ IsLeap(y) THEN 1 ELSE 0)

DaysBeforeYear(y) ==
    LET p == y - 1 IN p * 365 + (p \div 4) - (p \div 100) + (p \div 400)

\* strptime(s, '%Y-%m-%d') succeeds exactly on the strings of real dates.
ValidDate(s) ==
    /\ s[1] >= 1
    /\ s[2] \in 1..12
    /\ s[3] >= 1
    /\ s[3] <= DaysInMonth(s[1], s[2])

\* The date a string parses to: date(y, m, d).toordinal().
ToOrdinal(s) == DaysBeforeYear(s[1]) + DaysBeforeMonth(s[1], s[2]) + s[3]

\* date.fromordinal(n): the 400/100/4/1-year cycle decomposition of the
\* ordinal.
YearMonthDay ==
    [ord \in Int |->
        LET n0   == ord - 1
            n400 == n0 \div 146097
            r400 == n0 % 146097
            n100 == r400 \div 36524
            r100 == r400 % 36524
            n4   == r100 \div 1461
            r4   == r100 % 1461
            n1   == r4 \div 365
            n    == r4 % 365
            year == n400 * 400 + 1 + n100 * 100 + n4 * 4 + n1
            guess == (n + 50) \div 32
            month == IF DaysBeforeMonth(year, guess) > n THEN guess - 1 ELSE guess
        IN  IF n1 = 4 \/ n100 = 4
            THEN <<year - 1, 12, 31>>
            ELSE <<year, month, n - DaysBeforeMonth(year, month) + 1>>]

\* date.fromordinal(n).strftime('%Y-%m-%d')
FromOrdinal(ord) == YearMonthDay[ord]

----------------------------------------------------------------------------
(* State of one query.                                                     *)

VARIABLES
    pc,                \* "idle" | "fetch_single" | "fetch" | "conflicts" | "scan" | "done"
    op,                \* tool being run: "none" | "single" | "range"
    date,              \* argument of check_date_availability
    start_date,        \* arguments of check_date_range_availability
    end_date,
    pending,           \* (year, month) pairs the fetch loop has yet to visit
    calls,             \* bag of (year, month) pairs get_reservations was invoked with
    failed,            \* kinds of failure the fetches of this query have met
    all_reservations,  \* records received so far, in order of receipt
    conflicts,         \* conflict records, in order
    available_periods, \* emitted periods, in order
    current_date,      \* cursor of the free-period scan (ordinal)
    result             \* the dictionary returned to the caller

vars == <<pc, op, date, start_date, end_date, pending, calls, failed,
          all_reservations, conflicts, available_periods, current_date, result>>

NoDate == <<>>

NoResult == [status |-> "none", error |-> "", reservation_id |-> 0]

Available == [status |-> "available", error |-> "", reservation_id |-> 0]

Unavailable(id) == [status |-> "unavailable", error |-> "", reservation_id |-> id]

ErrorResult(msg) == [status |-> "error", error |-> msg, reservation_id |-> 0]

\* except ValueError / except Exception: the message each handler returns.
HandlerMessage(exc) ==
    IF exc = "ValueError" THEN "Invalid date format" ELSE "Failed to check availability"

----------------------------------------------------------------------------
(* ReservationClient.get_reservations                                      *)

\* What one HTTP exchange can come to.
FetchOutcomes == {"ok", "http_status", "not_success", "network_error", "bad_json"}

\* Outcomes under which the call raises instead of returning a list:
\* session.get raises (connection error, timeout), response.json() raises
\* (JSONDecodeError, a ValueError).  Neither is caught in get_reservations.
Raises(outcome) ==
    IF outcome = "network_error" THEN "Exception"
    ELSE IF outcome = "bad_json" THEN "ValueError"
    ELSE "none"

\* The list returned when the call returns: the payload's data on a 200
\* with success set, [] otherwise.
get_reservations(outcome, data) ==
    IF outcome = "ok" THEN data ELSE <<>>

\* Interval shapes of the records the backend holds: every interval over
\* ReservationDates that starts before it ends, a degenerate and an inverted
\* one, and one shape for a record whose timestamps do not parse.
Shapes ==
    {sh \in ReservationDates \X ReservationDates : DateLess(sh[1], sh[2])}
        \cup ImproperShapes \cup {<<BadDate, BadDate>>}

SeqsUpTo(S, n) == UNION {[1..k -> S] : k \in 0..n}

\* reservationId is opaque and unique per reservation: the k-th record a
\* query receives carries id k.
Records(shapes, base) ==
    [i \in 1..Len(shapes) |->
        [reservationId |-> base + i,
         startDate     |-> shapes[i][1],
         endDate       |-> shapes[i][2]]]

Parses(r) == ValidDate(r.startDate) /\ ValidDate(r.endDate)

----------------------------------------------------------------------------
(* check_date_availability                                                 *)

\* Occupies with the end date counted as occupied.
OccupiesThroughEnd(r, d) == ToOrdinal(r.startDate) <= d /\ d <= ToOrdinal(r.endDate)

\* start_date.date() <= check_date.date() < end_date.date()
Occupies(r, d) == ToOrdinal(r.startDate) <= d /\ d < ToOrdinal(r.endDate)

\* The for loop over the fetched reservations: the first record that does
\* not parse raises, the first record that occupies the date returns.
RECURSIVE CheckDate(_, _, _)
CheckDate(rs, i, d) ==
    IF i > Len(rs) THEN Available
    ELSE IF ~Parses(rs[i]) THEN ErrorResult(HandlerMessage("ValueError"))
    ELSE IF Occupies(rs[i], d) THEN Unavailable(rs[i].reservationId)
    ELSE CheckDate(rs, i + 1, d)

----------------------------------------------------------------------------
(* check_date_range_availability                                           *)

\* StartNotBeforeEnd that lets an empty range through.
StartAfterEnd(start_dt, end_dt) == start_dt > end_dt

\* if start_dt >= end_dt: return {'error': ...}
StartNotBeforeEnd(start_dt, end_dt) == start_dt >= end_dt

NextMonth(ym) == IF ym[2] = 12 THEN <<ym[1] + 1, 1>> ELSE <<ym[1], ym[2] + 1>>

\* while current <= end_dt: months_to_check.add(...); current = next month
RECURSIVE MonthsFrom(_, _)
MonthsFrom(current, end_dt) ==
    IF ToOrdinal(<<current[1], current[2], 1>>) <= end_dt
    THEN {current} \cup MonthsFrom(NextMonth(current), end_dt)
    ELSE {}

MonthsToCheck(start_dt, end_dt) ==
    LET s == FromOrdinal(start_dt) IN MonthsFrom(<<s[1], s[2]>>, end_dt)

\* Overlaps with closed instead of open bounds.
OverlapsOrTouches(start_dt, end_dt, res_start, res_end) ==
    start_dt <= res_end /\ end_dt >= res_start

\* start_dt.date() < res_end and end_dt.date() > res_start
Overlaps(start_dt, end_dt, res_start, res_end) ==
    start_dt < res_end /\ end_dt > res_start

ConflictOf(r) ==
    [id         |-> r.reservationId,
     start_date |-> FromOrdinal(ToOrdinal(r.startDate)),
     end_date   |-> FromOrdinal(ToOrdinal(r.endDate))]

\* The conflict loop over rs[i..]: appends a record per overlapping
\* reservation; stops at a record that does not parse.
RECURSIVE FindConflicts(_, _, _, _)
FindConflicts(rs, i, start_dt, end_dt) ==
    IF i > Len(rs) \/ ~Parses(rs[i]) THEN <<>>
    ELSE IF Overlaps(start_dt, end_dt, ToOrdinal(rs[i].startDate), ToOrdinal(rs[i].endDate))
         THEN <<ConflictOf(rs[i])>> \o FindConflicts(rs, i + 1, start_dt, end_dt)
         ELSE FindConflicts(rs, i + 1, start_dt, end_dt)

\* conflict_start <= day < conflict_end
Blocks(c, day) == ToOrdinal(c.start_date) <= day /\ day < ToOrdinal(c.end_date)

\* Index of the conflict the inner for loop breaks on, 0 when the day is free.
RECURSIVE Blocking(_, _, _)
Blocking(cs, i, day) ==
    IF i > Len(cs) THEN 0
    ELSE IF Blocks(cs[i], day) THEN i
    ELSE Blocking(cs, i + 1, day)

\* PeriodEnd that extends one day further than the end of the range.
PeriodEndPastRange(cs, current, end_dt) ==
    LET extend[period_end \in Int] ==
            IF period_end <= end_dt /\ Blocking(cs, 1, period_end + 1) = 0
            THEN extend[period_end + 1]
            ELSE period_end
    IN  extend[current]

\* while period_end < end: extend by a day while the next day is free.
PeriodEnd(cs, current, end_dt) ==
    LET extend[period_end \in Int] ==
            IF period_end < end_dt /\ Blocking(cs, 1, period_end + 1) = 0
            THEN extend[period_end + 1]
            ELSE period_end
    IN  extend[current]

\* current_date = period_end + timedelta(days=1)
AfterPeriod(period_end) == period_end + 1

\* AfterBlocking that goes to the start of the blocking reservation.
BackToBlocking(c) == ToOrdinal(c.start_date)

\* current_date = conflict_end of the blocking reservation
AfterBlocking(c) == ToOrdinal(c.end_date)

----------------------------------------------------------------------------
(* Steps of a query.                                                       *)

Init ==
    /\ pc = "idle"
    /\ op = "none"
    /\ date = NoDate
    /\ start_date = NoDate
    /\ end_date = NoDate
    /\ pending = {}
    /\ calls = EmptyBag
    /\ failed = {}
    /\ all_reservations = <<>>
    /\ conflicts = <<>>
    /\ available_periods = <<>>
    /\ current_date = 0
    /\ result = NoResult

\* check_date_availability up to its await: parse the date, pick the month.
CallSingle ==
    /\ pc = "idle"
    /\ \E d \in QueryDates \cup {BadDate} :
        /\ op' = "single"
        /\ date' = d
        /\ IF ValidDate(d)
           THEN /\ pending' = {<<d[1], d[2]>>}
                /\ pc' = "fetch_single"
                /\ result' = result
           ELSE /\ pending' = pending
                /\ pc' = "done"
                /\ result' = ErrorResult(HandlerMessage("ValueError"))
    /\ UNCHANGED <<start_date, end_date, calls, failed, all_reservations,
                   conflicts, available_periods, current_date>>

\* The fetch of the date's month returns or raises; the loop over the
\* reservations and the return follow without another await.
FetchSingle ==
    /\ pc = "fetch_single"
    /\ \E ym \in pending, outcome \in FetchOutcomes, shapes \in SeqsUpTo(Shapes, MaxRes) :
        /\ outcome = "ok" \/ shapes = <<>>
        /\ calls' = calls (+) SetToBag({ym})
        /\ pending' = pending \ {ym}
        /\ failed' = IF outcome = "ok" THEN failed ELSE failed \cup {outcome}
        /\ IF Raises(outcome) # "none"
           THEN /\ all_reservations' = all_reservations
                /\ result' = ErrorResult(HandlerMessage(Raises(outcome)))
           ELSE /\ all_reservations' = get_reservations(outcome, Records(shapes, 0))
                /\ result' = CheckDate(all_reservations', 1, ToOrdinal(date))
    /\ pc' = "done"
    /\ UNCHANGED <<op, date, start_date, end_date, conflicts, available_periods,
                   current_date>>

\* check_date_range_availability up to its first await: parse both dates,
\* validate the range, collect the months.
CallRange ==
    /\ pc = "idle"
    /\ \E s \in QueryDates \cup {BadDate}, e \in QueryDates \cup {BadDate} :
        /\ op' = "range"
        /\ start_date' = s
        /\ end_date' = e
        /\ IF ~ValidDate(s) \/ ~ValidDate(e)
           THEN /\ result' = ErrorResult(HandlerMessage("ValueError"))
                /\ pending' = pending
                /\ pc' = "done"
           ELSE IF StartNotBeforeEnd(ToOrdinal(s), ToOrdinal(e))
           THEN /\ result' = ErrorResult("Start date must be before end date")
                /\ pending' = pending
                /\ pc' = "done"
           ELSE /\ result' = result
                /\ pending' = MonthsToCheck(ToOrdinal(s), ToOrdinal(e))
                /\ pc' = "fetch"
    /\ UNCHANGED <<date, calls, failed, all_reservations, conflicts,
                   available_periods, current_date>>

\* One iteration of the loop over months_to_check, in whatever order the
\* set yields the months: the fetch returns and its records are appended,
\* or it raises and the handler returns the error.
FetchMonth ==
    /\ pc = "fetch"
    /\ \E ym \in pending, outcome \in FetchOutcomes,
          shapes \in SeqsUpTo(Shapes, MaxRes - Len(all_reservations)) :
        /\ outcome = "ok" \/ shapes = <<>>
        /\ calls' = calls (+) SetToBag({ym})
        /\ pending' = pending \ {ym}
        /\ failed' = IF outcome = "ok" THEN failed ELSE failed \cup {outcome}
        /\ IF Raises(outcome) # "none"
           THEN /\ all_reservations' = all_reservations
                /\ result' = ErrorResult(HandlerMessage(Raises(outcome)))
                /\ pc' = "done"
           ELSE /\ all_reservations' = all_reservations \o
                       get_reservations(outcome, Records(shapes, Len(all_reservations)))
                /\ result' = result
                /\ pc' = IF pending' = {} THEN "conflicts" ELSE "fetch"
    /\ UNCHANGED <<op, date, start_date, end_date, conflicts, available_periods,
                   current_date>>

\* The conflict loop, and the return when there is no conflict.
FilterConflicts ==
    /\ pc = "conflicts"
    /\ LET start_dt == ToOrdinal(start_date)
           end_dt   == ToOrdinal(end_date)
       IN  /\ conflicts' = FindConflicts(all_reservations, 1, start_dt, end_dt)
           /\ IF \E i \in 1..Len(all_reservations) : ~Parses(all_reservations[i])
              THEN /\ result' = ErrorResult(HandlerMessage("ValueError"))
                   /\ pc' = "done"
                   /\ current_date' = current_date
              ELSE IF conflicts' = <<>>
              THEN /\ result' = Available
                   /\ pc' = "done"
                   /\ current_date' = current_date
              ELSE /\ result' = result
                   /\ pc' = "scan"
                   /\ current_date' = start_dt
    /\ UNCHANGED <<op, date, start_date, end_date, pending, calls, failed,
                   all_reservations, available_periods>>

\* An iteration of the scan whose cursor day is free: emit a period.
ScanFree ==
    /\ pc = "scan"
    /\ current_date < ToOrdinal(end_date)
    /\ Blocking(conflicts, 1, current_date) = 0
    /\ LET period_end == PeriodEnd(conflicts, current_date, ToOrdinal(end_date))
       IN  /\ available_periods' = Append(available_periods,
                   [start_date |-> FromOrdinal(current_date),
                    end_date   |-> FromOrdinal(period_end)])
           /\ current_date' = AfterPeriod(period_end)
    /\ UNCHANGED <<pc, op, date, start_date, end_date, pending, calls, failed,
                   all_reservations, conflicts, result>>

\* An iteration of the scan whose cursor day is occupied: skip the blocker.
ScanBlocked ==
    /\ pc = "scan"
    /\ current_date < ToOrdinal(end_date)
    /\ Blocking(conflicts, 1, current_date) # 0
    /\ current_date' = AfterBlocking(conflicts[Blocking(conflicts, 1, current_date)])
    /\ UNCHANGED <<pc, op, date, start_date, end_date, pending, calls, failed,
                   all_reservations, conflicts, available_periods, result>>

\* The scan loop exits and the unavailable result is returned.
ScanDone ==
    /\ pc = "scan"
    /\ ~(current_date < ToOrdinal(end_date))
    /\ result' = Unavailable(0)
    /\ pc' = "done"
    /\ UNCHANGED <<op, date, start_date, end_date, pending, calls, failed,
                   all_reservations, conflicts, available_periods, current_date>>

\* The result is handed to the caller; nothing is kept between queries.
Return ==
    /\ pc = "done"
    /\ pc' = "idle"
    /\ op' = "none"
    /\ date' = NoDate
    /\ start_date' = NoDate
    /\ end_date' = NoDate
    /\ pending' = {}
    /\ calls' = EmptyBag
    /\ failed' = {}
    /\ all_reservations' = <<>>
    /\ conflicts' = <<>>
    /\ available_periods' = <<>>
    /\ current_date' = 0
    /\ result' = NoResult

Next ==
    \/ CallSingle
    \/ FetchSingle
    \/ CallRange
    \/ FetchMonth
    \/ FilterConflicts
    \/ ScanFree
    \/ ScanBlocked
    \/ ScanDone
    \/ Return

Spec == Init /\ [][Next]_vars

\* The scan runs to its return without awaiting anything.
FairSpec ==
    /\ Init
    /\ [][Next]_vars
    /\ WF_vars(ScanFree)
    /\ WF_vars(ScanBlocked)
    /\ WF_vars(ScanDone)

----------------------------------------------------------------------------
(* Vocabulary of the properties.  Dates are compared as the strings the    *)
(* caller sees, not through the ordinals the operations compute with.      *)

DateLeq(a, b) == a = b \/ DateLess(a, b)

RangeReturned == pc = "done" /\ op = "range"

\* The range check returned the unavailable dictionary, with its conflicts
\* and available_periods.
RangeUnavailable == RangeReturned /\ result.status = "unavailable"

QueryDays == ToOrdinal(start_date) .. (ToOrdinal(end_date) - 1)

\* Day d lies in the half-open interval [iv.start_date, iv.end_date).
InHalfOpen(iv, d) == ToOrdinal(iv.start_date) <= d /\ d < ToOrdinal(iv.end_date)

\* Day d lies in the inclusive span iv.start_date .. iv.end_date.
InInclusive(iv, d) == ToOrdinal(iv.start_date) <= d /\ d <= ToOrdinal(iv.end_date)

\* No conflict of the result covers day d.
FreeDay(d) == \A i \in 1..Len(conflicts) : ~InHalfOpen(conflicts[i], d)

Proper(r) == Parses(r) /\ DateLess(r.startDate, r.endDate)

Improper(r) == Parses(r) /\ ~DateLess(r.startDate, r.endDate)

AllParse == \A i \in 1..Len(all_reservations) : Parses(all_reservations[i])

\* (C1) Whenever a range check reports conflicts, the conflicts and the
\* available periods, each read as the half-open interval
\* [start_date, end_date), partition the query range: every day of
\* [queryStart, queryEnd) lies in exactly one of them and none of them
\* reaches outside the query range.
C1_HalfOpenPartition ==
    RangeUnavailable =>
        LET ivs == [i \in 1..Len(conflicts) |->
                        [start_date |-> conflicts[i].start_date,
                         end_date   |-> conflicts[i].end_date]]
                   \o available_periods
        IN  /\ \A d \in QueryDays :
                 Cardinality({i \in 1..Len(ivs) : InHalfOpen(ivs[i], d)}) = 1
            /\ \A i \in 1..Len(ivs) :
                 /\ DateLeq(start_date, ivs[i].start_date)
                 /\ DateLeq(ivs[i].end_date, end_date)

\* The query and the reservation of the spec's concrete scenario.
Scenario ==
    /\ start_date = <<2024, 3, 1>>
    /\ end_date = <<2024, 3, 15>>
    /\ Len(all_reservations) = 1
    /\ all_reservations[1].startDate = <<2024, 3, 5>>
    /\ all_reservations[1].endDate = <<2024, 3, 10>>

\* (C2) Every emitted available period is a maximal half-open free interval
\* [runStart, c): it starts a run of days no conflict covers, and its
\* end_date c is the first day after the run, a day a conflict covers or
\* queryEnd.  For the reservation 03-05..03-10 and the query 03-01..03-15
\* the periods are 03-01..03-05 and 03-10..03-15.
C2_MaximalHalfOpenPeriods ==
    RangeUnavailable =>
        /\ \A i \in 1..Len(available_periods) :
             LET a == ToOrdinal(available_periods[i].start_date)
                 c == ToOrdinal(available_periods[i].end_date)
             IN  /\ ToOrdinal(start_date) <= a /\ a < c /\ c <= ToOrdinal(end_date)
                 /\ \A d \in a..(c - 1) : FreeDay(d)
                 /\ a = ToOrdinal(start_date) \/ ~FreeDay(a - 1)
                 /\ c = ToOrdinal(end_date) \/ ~FreeDay(c)
        /\ Scenario =>
             available_periods =
                <<[start_date |-> <<2024, 3, 1>>, end_date |-> <<2024, 3, 5>>],
                  [start_date |-> <<2024, 3, 10>>, end_date |-> <<2024, 3, 15>>]>>

SingleReturned == pc = "done" /\ op = "single"

\* The reservation at index i of the fetched list covers the checked date.
Covers(i) ==
    /\ Parses(all_reservations[i])
    /\ DateLeq(all_reservations[i].startDate, date)
    /\ DateLess(date, all_reservations[i].endDate)

Covering == {i \in 1..Len(all_reservations) : Covers(i)}

\* (C3, as claimed) For every fetched reservation that covers the date, the
\* single-date check is unavailable and reports that reservation's id,
\* whatever list of reservations was fetched.
C3_EveryCoveringReported ==
    SingleReturned /\ AllParse =>
        \A i \in Covering :
            /\ result.status = "unavailable"
            /\ result.reservation_id = all_reservations[i].reservationId

\* (C3, amended) When some fetched reservation covers the date, the check
\* is unavailable and reports the id of the first covering reservation in
\* fetch order; only when a record before that one does not parse is the
\* result an error instead.  It is never available.
C3_FirstCoveringReported ==
    SingleReturned /\ Covering # {} =>
        LET first == CHOOSE i \in Covering : \A j \in Covering : i <= j
        IN  IF \A j \in 1..(first - 1) : Parses(all_reservations[j])
            THEN result = Unavailable(all_reservations[first].reservationId)
            ELSE result.status = "error"

\* Two reservations with different ids cover the checked date.
C3_Witness ==
    /\ SingleReturned
    /\ Cardinality(Covering) >= 2
    /\ result.status = "unavailable"

\* The open-overlap predicate on a reservation, on the date strings.
Intersects(r) == DateLess(start_date, r.endDate) /\ DateLess(r.startDate, end_date)

\* The conflict loop has run over every record.
ConflictsComputed ==
    /\ op = "range"
    /\ pc = "scan" \/ (pc = "done" /\ result.status \in {"available", "unavailable"})

\* (C4) The conflicts are exactly the fetched reservations r with
\* queryStart < date(r.endDate) and queryEnd > date(r.startDate), in the
\* order received; a reservation ending on queryStart or starting on
\* queryEnd is no conflict; the result is available exactly when no
\* fetched reservation satisfies the predicate.
C4_ConflictsExact ==
    ConflictsComputed =>
        LET hits == SelectSeq(all_reservations, Intersects)
        IN  /\ Len(conflicts) = Len(hits)
            /\ \A i \in 1..Len(hits) :
                 /\ conflicts[i].id = hits[i].reservationId
                 /\ conflicts[i].start_date = hits[i].startDate
                 /\ conflicts[i].end_date = hits[i].endDate
            /\ \A i \in 1..Len(all_reservations) :
                 (all_reservations[i].endDate = start_date
                    \/ all_reservations[i].startDate = end_date)
                 => \A j \in 1..Len(conflicts) :
                       conflicts[j].id # all_reservations[i].reservationId
            /\ pc = "done" => (result.status = "available" <=> hits = <<>>)

\* A conflict is reported next to a reservation that ends on queryStart.
C4_Witness ==
    /\ RangeUnavailable
    /\ Len(conflicts) < Len(all_reservations)
    /\ \E i \in 1..Len(all_reservations) :
         Proper(all_reservations[i]) /\ all_reservations[i].endDate = start_date

MonthLeq(a, b) == a[1] < b[1] \/ (a[1] = b[1] /\ a[2] <= b[2])

\* Months from the one of queryStart through the one of queryEnd.
ExpectedMonths ==
    {ym \in (start_date[1]..end_date[1]) \X (1..12) :
        /\ MonthLeq(<<start_date[1], start_date[2]>>, ym)
        /\ MonthLeq(ym, <<end_date[1], end_date[2]>>)}

\* (C5) A monthly fetch that fails in any way counts as an empty month: the
\* query still returns a normal availability result, and the other months
\* of the range are still fetched.
C5_FailedFetchIsEmptyMonth ==
    pc = "done" /\ failed # {} /\ AllParse =>
        /\ result.status \in {"available", "unavailable"}
        /\ op = "range" => BagToSet(calls) = ExpectedMonths

\* (C6) A reservation with date(startDate) >= date(endDate) never matches:
\* it is not the reservation a single-date check reports, it is no conflict
\* of a range check, it never makes a range check unavailable, and it
\* fails neither operation.
C6_ImproperNeverMatches ==
    pc = "done" =>
        /\ op = "single" /\ result.status = "unavailable" =>
             \A i \in 1..Len(all_reservations) :
                 all_reservations[i].reservationId = result.reservation_id
                 => Proper(all_reservations[i])
        /\ op = "range" /\ result.status # "error" =>
             \A j \in 1..Len(conflicts) :
                 DateLess(conflicts[j].start_date, conflicts[j].end_date)
        /\ (op = "range" /\ result.status # "error"
              /\ \A i \in 1..Len(all_reservations) : Improper(all_reservations[i]))
             => result.status = "available"
        /\ ((\E i \in 1..Len(all_reservations) : Improper(all_reservations[i]))
              /\ AllParse /\ failed \cap {"network_error", "bad_json"} = {})
             => result.status # "error"

\* (C7) A range check with queryStart >= queryEnd returns the error result
\* before any effect: no fetch is issued, no conflict or period computed.
C7_InvertedRangeRejected ==
    (op = "range" /\ ValidDate(start_date) /\ ValidDate(end_date)
        /\ ~DateLess(start_date, end_date))
    =>  /\ pc = "done"
        /\ result = ErrorResult("Start date must be before end date")
        /\ calls = EmptyBag
        /\ pending = {}
        /\ all_reservations = <<>>
        /\ conflicts = <<>>
        /\ available_periods = <<>>

\* A range check whose start date is its end date has returned.
C7_Witness ==
    /\ RangeReturned
    /\ ValidDate(start_date)
    /\ start_date = end_date
    /\ result.status = "error"

\* (C8) A valid range check invokes the fetch exactly once for each
\* (year, month) from the month of queryStart through the month of
\* queryEnd, and for no other.
C8_EachMonthFetchedOnce ==
    (RangeReturned /\ ValidDate(start_date) /\ ValidDate(end_date)
        /\ DateLess(start_date, end_date))
    => calls = SetToBag(ExpectedMonths)

\* An iteration of the free-period scan.
ScanStep == ScanFree \/ ScanBlocked

\* (C9) The free-period scan terminates: every iteration moves the cursor
\* strictly forward, to the day after the emitted period when the cursor
\* day is free and to the end date of the first covering conflict when it
\* is not, and the loop exits with the cursor at or past queryEnd.
C9_ScanTerminates ==
    /\ [][ScanStep =>
            /\ current_date' > current_date
            /\ IF FreeDay(current_date)
               THEN /\ Len(available_periods') = Len(available_periods) + 1
                    /\ current_date' =
                         ToOrdinal(available_periods'[Len(available_periods')].end_date) + 1
               ELSE LET k == CHOOSE i \in 1..Len(conflicts) :
                              /\ InHalfOpen(conflicts[i], current_date)
                              /\ \A j \in 1..(i - 1) : ~InHalfOpen(conflicts[j], current_date)
                    IN  /\ available_periods' = available_periods
                        /\ current_date' = ToOrdinal(conflicts[k].end_date)]_vars
    /\ (pc = "scan") ~> (RangeUnavailable /\ current_date >= ToOrdinal(end_date))

\* A scan has returned whose conflicts include an improper one and one that
\* covers days of the range.
C9_Witness ==
    /\ RangeUnavailable
    /\ current_date >= ToOrdinal(end_date)
    /\ \E i \in 1..Len(conflicts) : ~DateLess(conflicts[i].start_date, conflicts[i].end_date)
    /\ \E i \in 1..Len(conflicts) : \E d \in QueryDays : InHalfOpen(conflicts[i], d)

\* (C10) Reading each available period as the inclusive span
\* start_date..end_date: every day of the query range no conflict covers
\* lies in exactly one period, no day before queryEnd inside a period is
\* covered by a conflict, the periods are in strictly increasing order, and
\* queryStart <= start_date <= end_date <= queryEnd for each.
C10_InclusivePeriods ==
    RangeUnavailable =>
        /\ \A d \in QueryDays :
             FreeDay(d) =>
                Cardinality({i \in 1..Len(available_periods) :
                                InInclusive(available_periods[i], d)}) = 1
        /\ \A i \in 1..Len(available_periods) :
             \A d \in QueryDays : InInclusive(available_periods[i], d) => FreeDay(d)
        /\ \A i \in 1..(Len(available_periods) - 1) :
             DateLess(available_periods[i].end_date, available_periods[i + 1].start_date)
        /\ \A i \in 1..Len(available_periods) :
             /\ DateLeq(start_date, available_periods[i].start_date)
             /\ DateLeq(available_periods[i].start_date, available_periods[i].end_date)
             /\ DateLeq(available_periods[i].end_date, end_date)

\* Two periods were emitted: one that stops the day before a conflict and
\* one that runs to queryEnd.
C10_Witness ==
    /\ RangeUnavailable
    /\ Len(available_periods) = 2
    /\ ~FreeDay(ToOrdinal(available_periods[1].end_date) + 1)
    /\ available_periods[2].end_date = end_date

====
